---- MODULE Spec2Model ----
(***************************************************************************)
(* Model of src/src/App.tsx (tebak-gambar): the game session owned by      *)
(* useGameState, the CardModal's local status and its uncancelled          *)
(* one-second feedback timers, and the App-level auto-finish timer.        *)
(***************************************************************************)
EXTENDS Integers, Sequences, FiniteSets, TLC

\* ------------------------------------------------------------------ bounds
NumCards == 2      \* size of the dataset (number of puzzle images)
MaxPending == 2    \* feedback timers that can be pending at the same time
MaxGuessLen == 2   \* length of the typed guesses that are enumerated
MaxCmds == 4       \* length of the command sequences of SpecCmd

\* --------------------------------------------------------------- constants
CorrectPoints == 10
WrongPenalty == 5

VARIABLES
  state,    \* GameState held by useGameState
  status,   \* CardModal's local status of the mounted modal instance
  timers,   \* pending 1000 ms feedback timers, oldest first
  last,     \* history: the last operation applied and the card id it was given
  ncmd,     \* history: number of commands applied directly (SpecCmd only)
  storage,  \* the localStorage item 'tebak-gambar-state'
  stateIsInitial,  \* the state object is INITIAL_STATE itself (Object.is)
  boot      \* what the useState initializer returned

vars == <<state, status, timers, last, ncmd, storage, stateIsInitial, boot>>

\* ------------------------------------------------------------------- types
Team == {"blue", "red"}
null == "null"       \* solvedBy: null
NoCard == 0          \* openCardId: null

Other(team) == IF team = "blue" THEN "red" ELSE "blue"

\* ----------------------------------------------------------------- strings
\* A string is a sequence of one-character strings.
Letters == <<"a", "b", "c", "d">>
GuessChars == {"a", "A", "b", " "}

LowerChar(ch) ==
  CASE ch = "A" -> "a"
    [] ch = "B" -> "b"
    [] OTHER -> ch

toLowerCase(s) == [i \in 1..Len(s) |-> LowerChar(s[i])]

RECURSIVE trimStart(_)
trimStart(s) == IF s # <<>> /\ Head(s) = " " THEN trimStart(Tail(s)) ELSE s

RECURSIVE trimEnd(_)
trimEnd(s) ==
  IF s # <<>> /\ s[Len(s)] = " " THEN trimEnd(SubSeq(s, 1, Len(s) - 1)) ELSE s

trim(s) == trimEnd(trimStart(s))

RECURSIVE SeqsUpTo(_, _)
SeqsUpTo(S, n) ==
  IF n = 0 THEN {<<>>}
  ELSE LET shorter == SeqsUpTo(S, n - 1)
       IN shorter \cup {Append(s, ch) : s \in shorter, ch \in S}

Guesses == SeqsUpTo(GuessChars, MaxGuessLen)

\* ----------------------------------------------------------------- dataset
puzzleEntries ==
  [i \in 1..NumCards |-> [answer |-> <<Letters[i]>>, imageUrl |-> i]]

INITIAL_CARDS ==
  [index \in 1..Len(puzzleEntries) |->
     [id |-> index,
      isSolved |-> FALSE,
      solvedBy |-> null,
      failedBy |-> <<>>,
      answer |-> puzzleEntries[index].answer,
      imageUrl |-> puzzleEntries[index].imageUrl]]

INITIAL_STATE ==
  [isStarted |-> FALSE,
   isFinished |-> FALSE,
   activeTeam |-> "blue",
   blueScore |-> 0,
   redScore |-> 0,
   cards |-> INITIAL_CARDS,
   openCardId |-> NoCard]

\* ------------------------------------------------------------- persistence
\* Array.prototype.join on strings held as sequences of characters
RECURSIVE join(_, _)
join(parts, sep) ==
  IF parts = <<>> THEN <<>>
  ELSE IF Len(parts) = 1 THEN parts[1]
  ELSE parts[1] \o <<sep>> \o join(Tail(parts), sep)

\* `${card.answer}|${card.imageUrl}` of every card, joined by '||'
KeyOf(cards) ==
  join([i \in DOMAIN cards |->
          cards[i].answer \o <<"|", ToString(cards[i].imageUrl)>>], "||")

DATASET_KEY == KeyOf(INITIAL_CARDS)

\* A JSON value read as a session: shape says what it is ("session": an
\* object with every GameState field, "partial": an object with a cards array
\* but other fields missing, "nocards": an object without cards, "null": null
\* or a primitive); val holds its fields where it has them; ref says whether
\* it is the INITIAL_STATE object itself rather than a parsed copy.
Parsed(shape, val) == [shape |-> shape, val |-> val, ref |-> FALSE]

InitialResult == [shape |-> "session", val |-> INITIAL_STATE, ref |-> TRUE]

\* The stored string, by what `if (saved)` and JSON.parse make of it:
\* "absent" (getItem gives null), "empty" (''), "invalid" (parse throws),
\* "primitive" (a number, string, boolean or null) or "object", with its
\* datasetKey and state properties where present and the object itself read
\* as a session (self).
Item(form, hasKey, key, hasState, st, self) ==
  [form |-> form, hasKey |-> hasKey, datasetKey |-> key,
   hasState |-> hasState, state |-> st, self |-> self]

NoValue == Parsed("null", INITIAL_STATE)

Absent == Item("absent", FALSE, <<>>, FALSE, NoValue, NoValue)

\* JSON.parse(JSON.stringify(s)) of a GameState: every field is a boolean,
\* a number, a string, null or an array of such, so each one comes back
stringify(s) ==
  Parsed("session",
    [isStarted |-> s.isStarted,
     isFinished |-> s.isFinished,
     activeTeam |-> s.activeTeam,
     blueScore |-> s.blueScore,
     redScore |-> s.redScore,
     cards |-> [i \in DOMAIN s.cards |->
                  [id |-> s.cards[i].id,
                   isSolved |-> s.cards[i].isSolved,
                   solvedBy |-> s.cards[i].solvedBy,
                   failedBy |-> s.cards[i].failedBy,
                   answer |-> s.cards[i].answer,
                   imageUrl |-> s.cards[i].imageUrl]],
     openCardId |-> s.openCardId])

\* the persist effect: setItem(JSON.stringify({ datasetKey: DATASET_KEY, state }))
persist(s) ==
  Item("object", TRUE, DATASET_KEY, TRUE, stringify(s), Parsed("nocards", INITIAL_STATE))

\* legacyState?.cards?.length === INITIAL_CARDS.length
LegacyCardsMatch(item) ==
  /\ item.form = "object"
  /\ item.self.shape \in {"session", "partial"}
  /\ Len(item.self.val.cards) = Len(INITIAL_CARDS)

\* the loader with the fingerprint comparison inverted
loader_ResumesOnMismatch(item) ==
  IF item.form \in {"absent", "empty"} THEN InitialResult
  ELSE IF item.form = "invalid" THEN InitialResult
  ELSE IF item.form = "object" /\ item.hasState /\ item.hasKey
    THEN IF item.datasetKey # DATASET_KEY THEN item.state ELSE InitialResult
  ELSE IF LegacyCardsMatch(item) THEN item.self
  ELSE InitialResult

\* the useState initializer
loader(item) ==
  IF item.form \in {"absent", "empty"} THEN InitialResult
  ELSE IF item.form = "invalid" THEN InitialResult
  ELSE IF item.form = "object" /\ item.hasState /\ item.hasKey
    THEN IF item.datasetKey = DATASET_KEY THEN item.state ELSE InitialResult
  ELSE IF LegacyCardsMatch(item) THEN item.self
  ELSE InitialResult

\* ---------------------------------------------------------------- commands
HasCard(s, id) == \E i \in DOMAIN s.cards : s.cards[i].id = id

\* s.cards.find(c => c.id === id), for an id that exists
find(s, id) ==
  s.cards[CHOOSE i \in DOMAIN s.cards :
            /\ s.cards[i].id = id
            /\ \A j \in DOMAIN s.cards : s.cards[j].id = id => i <= j]

startGame(s) == [s EXCEPT !.isStarted = TRUE]

\* resetGame that leaves the turn with the team that had it
resetGame_KeepsTurn(s) == [INITIAL_STATE EXCEPT !.activeTeam = s.activeTeam]

resetGame(s) == INITIAL_STATE

openCard(s, id) == [s EXCEPT !.openCardId = id]

\* closeCard that counts a dismissed look as a turn
closeCard_PassesTurn(s) ==
  [s EXCEPT !.openCardId = NoCard, !.activeTeam = Other(s.activeTeam)]

closeCard(s) == [s EXCEPT !.openCardId = NoCard]

finishGame(s) == [s EXCEPT !.isFinished = TRUE]

\* handleCorrect with the turn passed before the points are awarded
handleCorrect_AwardsNextTeam(s, id) ==
  LET team == Other(s.activeTeam)
  IN [s EXCEPT
        !.cards = [i \in DOMAIN s.cards |->
                     IF s.cards[i].id = id
                       THEN [s.cards[i] EXCEPT !.isSolved = TRUE, !.solvedBy = team]
                       ELSE s.cards[i]],
        !.blueScore = IF team = "blue" THEN s.blueScore + CorrectPoints ELSE s.blueScore,
        !.redScore = IF team = "red" THEN s.redScore + CorrectPoints ELSE s.redScore,
        !.activeTeam = team,
        !.openCardId = NoCard]

handleCorrect(s, id) ==
  LET team == s.activeTeam
  IN [s EXCEPT
        !.cards = [i \in DOMAIN s.cards |->
                     IF s.cards[i].id = id
                       THEN [s.cards[i] EXCEPT !.isSolved = TRUE, !.solvedBy = team]
                       ELSE s.cards[i]],
        !.blueScore = IF team = "blue" THEN s.blueScore + CorrectPoints ELSE s.blueScore,
        !.redScore = IF team = "red" THEN s.redScore + CorrectPoints ELSE s.redScore,
        !.activeTeam = IF team = "blue" THEN "red" ELSE "blue",
        !.openCardId = NoCard]

\* handleWrong that also closes the card, as handleCorrect does
handleWrong_ClosesCard(s, id) ==
  LET team == s.activeTeam
  IN IF ~HasCard(s, id) THEN s
     ELSE LET newFailedBy == Append(find(s, id).failedBy, team)
          IN [s EXCEPT
                !.cards = [i \in DOMAIN s.cards |->
                             IF s.cards[i].id = id
                               THEN [s.cards[i] EXCEPT !.failedBy = newFailedBy]
                               ELSE s.cards[i]],
                !.blueScore = IF team = "blue" THEN s.blueScore - WrongPenalty ELSE s.blueScore,
                !.redScore = IF team = "red" THEN s.redScore - WrongPenalty ELSE s.redScore,
                !.activeTeam = IF team = "blue" THEN "red" ELSE "blue",
                !.openCardId = NoCard]

handleWrong(s, id) ==
  LET team == s.activeTeam
  IN IF ~HasCard(s, id) THEN s
     ELSE LET newFailedBy == Append(find(s, id).failedBy, team)
          IN [s EXCEPT
                !.cards = [i \in DOMAIN s.cards |->
                             IF s.cards[i].id = id
                               THEN [s.cards[i] EXCEPT !.failedBy = newFailedBy]
                               ELSE s.cards[i]],
                !.blueScore = IF team = "blue" THEN s.blueScore - WrongPenalty ELSE s.blueScore,
                !.redScore = IF team = "red" THEN s.redScore - WrongPenalty ELSE s.redScore,
                !.activeTeam = IF team = "blue" THEN "red" ELSE "blue"]

\* handleRevealClose that also wipes the revealed card's failed attempts
handleRevealClose_ClearsFailedBy(s, id) ==
  [s EXCEPT
     !.cards = [i \in DOMAIN s.cards |->
                  IF s.cards[i].id = id
                    THEN [s.cards[i] EXCEPT !.isSolved = TRUE, !.solvedBy = "none",
                                            !.failedBy = <<>>]
                    ELSE s.cards[i]],
     !.openCardId = NoCard]

\* handleRevealClose that records solvedBy 'none' without setting isSolved
handleRevealClose_NotSolved(s, id) ==
  [s EXCEPT
     !.cards = [i \in DOMAIN s.cards |->
                  IF s.cards[i].id = id
                    THEN [s.cards[i] EXCEPT !.solvedBy = "none"]
                    ELSE s.cards[i]],
     !.openCardId = NoCard]

handleRevealClose(s, id) ==
  [s EXCEPT
     !.cards = [i \in DOMAIN s.cards |->
                  IF s.cards[i].id = id
                    THEN [s.cards[i] EXCEPT !.isSolved = TRUE, !.solvedBy = "none"]
                    ELSE s.cards[i]],
     !.openCardId = NoCard]

\* ------------------------------------------------------------------ render
\* allSolved computed with some() where the code uses every()
allSolved_Some(s) == \E i \in DOMAIN s.cards : s.cards[i].isSolved

allSolved(s) == \A i \in DOMAIN s.cards : s.cards[i].isSolved

\* the modal is rendered for activeCard && !state.isFinished
ModalMounted(s) ==
  /\ s.openCardId # NoCard
  /\ HasCard(s, s.openCardId)
  /\ ~s.isFinished

activeCard(s) == find(s, s.openCardId)

bothFailed(card) == Len(card.failedBy) >= 2

\* the start screen is rendered and not covered by the modal's overlay
HeroClickable(s) == ~s.isStarted /\ ~ModalMounted(s)
WinnerShown(s) == s.isStarted /\ s.isFinished
\* the board is rendered and not covered by the modal's full-screen overlay
BoardClickable(s) == s.isStarted /\ ~s.isFinished /\ ~ModalMounted(s)

\* timers of an unmounted modal instance stay pending (no cleanup) but their
\* setStatus/setInput calls no longer reach a mounted component
Orphan(tm) == [i \in 1..Len(tm) |-> [tm[i] EXCEPT !.live = FALSE]]

\* resetGame clears no timer: the pending ones now belong to the replaced
\* session (preReset is history, the code keeps no such flag)
OutliveReset(tm) == [i \in 1..Len(tm) |-> [tm[i] EXCEPT !.preReset = TRUE]]

\* setState keeps the same object (no re-render, the persist effect does not
\* run) when resetGame finds INITIAL_STATE already in place, when handleWrong
\* returns s for an unknown id, and when no command is issued at all
SameObject(op, id) ==
  \/ op = "resetGame" /\ stateIsInitial
  \/ op = "handleWrong" /\ ~HasCard(state, id)
  \/ op = "submit"

\* localStorage after a command: resetGame removes the item first, and the
\* persist effect writes the new state whenever the state object changed
Persist(s2, op, id) ==
  /\ storage' = IF SameObject(op, id)
                  THEN (IF op = "resetGame" THEN Absent ELSE storage)
                  ELSE persist(s2)
  /\ stateIsInitial' = IF op = "resetGame" THEN TRUE
                        ELSE IF SameObject(op, id) THEN stateIsInitial
                        ELSE FALSE
  /\ UNCHANGED boot

\* One render after a state update: the modal (key "modal") keeps its local
\* state while it stays mounted and starts from 'idle' when it is mounted anew.
Render(s2, st, tm, op, id) ==
  /\ state' = s2
  /\ status' = IF ModalMounted(state) /\ ModalMounted(s2) THEN st ELSE "idle"
  /\ timers' = IF ModalMounted(state) /\ ModalMounted(s2) THEN tm ELSE Orphan(tm)
  /\ last' = [op |-> op, id |-> id]
  /\ Persist(s2, op, id)

\* -------------------------------------------------------------------- Init
Init ==
  /\ state = INITIAL_STATE
  /\ status = "idle"
  /\ timers = <<>>
  /\ last = [op |-> "init", id |-> NoCard]
  /\ ncmd = 0
  /\ boot = [phase |-> "loaded", result |-> loader(Absent)]
  /\ storage = persist(INITIAL_STATE)
  /\ stateIsInitial = TRUE

\* ------------------------------------------------------------- UI actions
\* Hero: Start Game button
StartGame ==
  /\ HeroClickable(state)
  /\ Render(startGame(state), status, timers, "startGame", NoCard)
  /\ UNCHANGED ncmd

\* GameBoard: Reset link; WinnerPage: Play Again button
ResetGame ==
  /\ BoardClickable(state) \/ WinnerShown(state)
  /\ Render(resetGame(state), status, OutliveReset(timers), "resetGame", NoCard)
  /\ UNCHANGED ncmd

\* the card button without its isSolved guard and disabled attribute
OpenCard_SolvedToo ==
  \E i \in DOMAIN state.cards :
    /\ BoardClickable(state)
    /\ Render(openCard(state, state.cards[i].id), status, timers,
              "openCard", state.cards[i].id)
    /\ UNCHANGED ncmd

\* GameBoard: card button, disabled for solved cards
OpenCard ==
  \E i \in DOMAIN state.cards :
    /\ BoardClickable(state)
    /\ ~state.cards[i].isSolved
    /\ Render(openCard(state, state.cards[i].id), status, timers,
              "openCard", state.cards[i].id)
    /\ UNCHANGED ncmd

\* CardModal: X button while the card is not exhausted
CloseCard ==
  /\ ModalMounted(state)
  /\ ~bothFailed(activeCard(state))
  /\ Render(closeCard(state), status, timers, "closeCard", state.openCardId)
  /\ UNCHANGED ncmd

\* CardModal: X button or "Close & Continue" once the card is exhausted
RevealClose ==
  /\ ModalMounted(state)
  /\ bothFailed(activeCard(state))
  /\ Render(handleRevealClose(state, activeCard(state).id), status, timers,
            "handleRevealClose", activeCard(state).id)
  /\ UNCHANGED ncmd

\* CardModal.handleSubmit: typing a guess and submitting the form
Submit ==
  \E input \in Guesses :
    /\ ModalMounted(state)
    /\ Len(timers) < MaxPending
    /\ ~(trim(input) = <<>> \/ status # "idle" \/ bothFailed(activeCard(state)))
    /\ LET card == activeCard(state)
           kind == IF toLowerCase(trim(input)) = toLowerCase(card.answer)
                     THEN "correct" ELSE "wrong"
           \* by: the team that was active at submission (history)
           timer == [kind |-> kind, id |-> card.id, live |-> TRUE,
                     by |-> state.activeTeam, preReset |-> FALSE]
       IN Render(state, kind, Append(timers, timer), "submit", card.id)
    /\ UNCHANGED ncmd

\* the 1000 ms timer of a correct guess fires: onCorrect(card.id)
FireCorrect ==
  /\ timers # <<>>
  /\ Head(timers).kind = "correct"
  /\ Render(handleCorrect(state, Head(timers).id), status, Tail(timers),
            "handleCorrect", Head(timers).id)
  /\ UNCHANGED ncmd

\* the 1000 ms timer of a wrong guess fires:
\* setStatus('idle'); setInput(''); onWrong(card.id)
FireWrong ==
  /\ timers # <<>>
  /\ Head(timers).kind = "wrong"
  /\ Render(handleWrong(state, Head(timers).id),
            IF Head(timers).live THEN "idle" ELSE status,
            Tail(timers), "handleWrong", Head(timers).id)
  /\ UNCHANGED ncmd

\* the auto-finish effect with its isFinished test inverted: no timer is armed
FinishGame_NeverArmed ==
  /\ allSolved(state) /\ state.isStarted /\ state.isFinished
  /\ timers = <<>>
  /\ Render(finishGame(state), status, timers, "finishGame", NoCard)
  /\ UNCHANGED ncmd

\* the 3000 ms auto-finish timer fires; every feedback timer that was pending
\* when it was armed has a shorter delay and has fired before it
FinishGame ==
  /\ allSolved(state) /\ state.isStarted /\ ~state.isFinished
  /\ timers = <<>>
  /\ Render(finishGame(state), status, timers, "finishGame", NoCard)
  /\ UNCHANGED ncmd

Next ==
  \/ StartGame
  \/ ResetGame
  \/ OpenCard
  \/ CloseCard
  \/ RevealClose
  \/ Submit
  \/ FireCorrect
  \/ FireWrong
  \/ FinishGame

Spec == Init /\ [][Next]_vars

\* setTimeout callbacks run once their delay has passed: a pending feedback
\* timer fires, and so does the auto-finish timer unless its effect's cleanup
\* clears it first (which disables FinishGame).
SpecFair ==
  /\ Spec
  /\ WF_vars(FireCorrect)
  /\ WF_vars(FireWrong)
  /\ WF_vars(FinishGame)

\* ------------------------------------------------- commands applied directly
\* The commands useGameState returns, applied in any order with any id
\* (one id past the dataset included), without the UI's guards.
CmdIds == 1..(NumCards + 1)

Cmd(s2, op, id) ==
  /\ ncmd' = ncmd + 1
  /\ state' = s2
  /\ last' = [op |-> op, id |-> id]
  /\ Persist(s2, op, id)
  /\ UNCHANGED <<status, timers>>

CmdStartGame ==
  /\ ncmd < MaxCmds
  /\ Cmd(startGame(state), "startGame", NoCard)

CmdResetGame ==
  /\ ncmd < MaxCmds
  /\ Cmd(resetGame(state), "resetGame", NoCard)

CmdOpenCard(id) ==
  /\ ncmd < MaxCmds
  /\ Cmd(openCard(state, id), "openCard", id)

CmdCloseCard ==
  /\ ncmd < MaxCmds
  /\ Cmd(closeCard(state), "closeCard", NoCard)

CmdFinishGame ==
  /\ ncmd < MaxCmds
  /\ Cmd(finishGame(state), "finishGame", NoCard)

CmdHandleCorrect(id) ==
  /\ ncmd < MaxCmds
  /\ Cmd(handleCorrect(state, id), "handleCorrect", id)

CmdHandleWrong(id) ==
  /\ ncmd < MaxCmds
  /\ Cmd(handleWrong(state, id), "handleWrong", id)

CmdHandleRevealClose(id) ==
  /\ ncmd < MaxCmds
  /\ Cmd(handleRevealClose(state, id), "handleRevealClose", id)

\* the page is loaded again: the initializer reads localStorage and the
\* persist effect of the first render writes the state back
CmdReload ==
  /\ ncmd < MaxCmds
  /\ loader(storage).shape = "session"
  /\ ncmd' = ncmd + 1
  /\ boot' = [phase |-> "loaded", result |-> loader(storage)]
  /\ state' = loader(storage).val
  /\ stateIsInitial' = loader(storage).ref
  /\ storage' = persist(loader(storage).val)
  /\ last' = [op |-> "reload", id |-> NoCard]
  /\ UNCHANGED <<status, timers>>

CmdNext ==
  \/ CmdStartGame
  \/ CmdResetGame
  \/ \E id \in CmdIds : CmdOpenCard(id)
  \/ CmdCloseCard
  \/ CmdFinishGame
  \/ \E id \in CmdIds : CmdHandleCorrect(id)
  \/ \E id \in CmdIds : CmdHandleWrong(id)
  \/ \E id \in CmdIds : CmdHandleRevealClose(id)
  \/ CmdReload

SpecCmd == Init /\ [][CmdNext]_vars

\* ----------------------------------------------- the loader on stored items
\* sessions found in storage: the initial one, a game in progress, a finished
\* game, and games of other datasets (same size with other answers; one card
\* more)
MidGame == handleWrong(openCard(startGame(INITIAL_STATE), 1), 1)

WonGame ==
  finishGame([startGame(INITIAL_STATE) EXCEPT
                !.cards = [i \in DOMAIN INITIAL_CARDS |->
                             [INITIAL_CARDS[i] EXCEPT !.isSolved = TRUE,
                                                      !.solvedBy = "red"]],
                !.redScore = CorrectPoints * Len(INITIAL_CARDS)])

OtherCards ==
  [i \in DOMAIN INITIAL_CARDS |->
     [INITIAL_CARDS[i] EXCEPT !.answer = <<"d">>, !.isSolved = TRUE,
                              !.solvedBy = "blue"]]

StaleGame ==
  [startGame(INITIAL_STATE) EXCEPT !.cards = OtherCards, !.blueScore = CorrectPoints]

LargerGame ==
  [INITIAL_STATE EXCEPT
     !.cards = Append(INITIAL_CARDS,
                      [id |-> Len(INITIAL_CARDS) + 1, isSolved |-> FALSE,
                       solvedBy |-> null, failedBy |-> <<>>,
                       answer |-> <<"d">>, imageUrl |-> Len(INITIAL_CARDS) + 1])]

StoredSessions == {INITIAL_STATE, MidGame, WonGame, StaleGame, LargerGame}

StoredKeys == {DATASET_KEY, KeyOf(OtherCards), KeyOf(LargerGame.cards)}

StoredValues ==
  {Parsed("session", s) : s \in StoredSessions}
    \cup {Parsed("partial", s) : s \in {MidGame, LargerGame}}
    \cup {Parsed("nocards", INITIAL_STATE), Parsed("null", INITIAL_STATE)}

StoredItems ==
  {Absent,
   Item("empty", FALSE, <<>>, FALSE, NoValue, NoValue),
   Item("invalid", FALSE, <<>>, FALSE, NoValue, NoValue),
   Item("primitive", FALSE, <<>>, FALSE, NoValue, NoValue)}
    \cup {Item("object", TRUE, k, TRUE, st, Parsed("nocards", INITIAL_STATE)) :
            k \in StoredKeys, st \in StoredValues}
    \cup {Item("object", TRUE, k, FALSE, NoValue, self) :
            k \in StoredKeys, self \in StoredValues}
    \cup {Item("object", FALSE, <<>>, TRUE, st, self) :
            st \in StoredValues, self \in StoredValues}
    \cup {Item("object", FALSE, <<>>, FALSE, NoValue, self) :
            self \in StoredValues}

LoadInit ==
  /\ storage \in StoredItems
  /\ boot = [phase |-> "pending", result |-> NoValue]
  /\ state = INITIAL_STATE
  /\ stateIsInitial = TRUE
  /\ status = "idle"
  /\ timers = <<>>
  /\ last = [op |-> "init", id |-> NoCard]
  /\ ncmd = 0

\* useState(() => ...) runs the initializer once, on the first render
LoadState ==
  /\ boot.phase = "pending"
  /\ boot' = [phase |-> "loaded", result |-> loader(storage)]
  /\ state' = IF loader(storage).shape = "session" THEN loader(storage).val ELSE state
  /\ stateIsInitial' = loader(storage).ref
  /\ last' = [op |-> "load", id |-> NoCard]
  /\ UNCHANGED <<storage, status, timers, ncmd>>

LoadNext == LoadState

SpecLoad == LoadInit /\ [][LoadNext]_vars

\* ------------------------------------------------------ helpers of the claims
Score(s, team) == IF team = "blue" THEN s.blueScore ELSE s.redScore

\* what a command may change besides openCardId and the flags
Game(s) == <<s.cards, s.blueScore, s.redScore, s.activeTeam>>

\* indexes of the cards that go from unsolved in s to solved in t
NewlySolved(s, t) ==
  {i \in DOMAIN s.cards : ~s.cards[i].isSolved /\ t.cards[i].isSolved}

\* a feedback timer fires and commits its guess
Commits == FireCorrect \/ FireWrong

\* the card the oldest pending timer was created for
TimerCard == find(state, Head(timers).id)

\* ------------------------------------------------------------------ claims
\* C1: every commit of a correct guess reachable through the UI and its timers
\* changes exactly one card from unsolved to solved, the one with the given
\* id, gives it solvedBy = the team active just before, and changes no other
\* card.
C1_CorrectSolvesExactlyOne ==
  [][FireCorrect =>
       LET id == Head(timers).id
       IN /\ Cardinality(NewlySolved(state, state')) = 1
          /\ \A i \in DOMAIN state.cards :
                IF state.cards[i].id = id
                  THEN /\ i \in NewlySolved(state, state')
                       /\ state'.cards[i].solvedBy = state.activeTeam
                  ELSE state'.cards[i] = state.cards[i]]_vars

\* C2: every handleCorrect(id) step adds exactly 10 to the score of the team
\* active before the step, leaves the other score unchanged, flips activeTeam
\* and sets openCardId to null.
C2_CorrectScoresAndPassesTurn ==
  [][\A id \in CmdIds :
       CmdHandleCorrect(id) =>
         /\ Score(state', state.activeTeam) = Score(state, state.activeTeam) + 10
         /\ Score(state', Other(state.activeTeam)) = Score(state, Other(state.activeTeam))
         /\ state'.activeTeam = Other(state.activeTeam)
         /\ state'.activeTeam # state.activeTeam
         /\ state'.openCardId = NoCard]_vars

\* C2 witness: handleCorrect was applied by red while a card was open; red
\* holds 10 points, blue none, and it is blue's turn with no card open.
C2_Witness ==
  /\ last.op = "handleCorrect"
  /\ state.redScore = 10
  /\ state.blueScore = -5
  /\ state.activeTeam = "blue"
  /\ state.openCardId = NoCard

\* C3: every handleWrong(id) step on an existing card appends the previously
\* active team to that card's failedBy, subtracts exactly 5 from that team's
\* score (no floor), leaves the other score unchanged, flips activeTeam, and
\* leaves the card's isSolved/solvedBy, every other card and openCardId
\* unchanged.
C3_WrongAppendsPenalisesAndPassesTurn ==
  [][\A id \in CmdIds :
       (CmdHandleWrong(id) /\ HasCard(state, id)) =>
         /\ \A i \in DOMAIN state.cards :
               IF state.cards[i].id = id
                 THEN /\ state'.cards[i].failedBy =
                           Append(state.cards[i].failedBy, state.activeTeam)
                      /\ Len(state'.cards[i].failedBy) = Len(state.cards[i].failedBy) + 1
                      /\ state'.cards[i].isSolved = state.cards[i].isSolved
                      /\ state'.cards[i].solvedBy = state.cards[i].solvedBy
                 ELSE state'.cards[i] = state.cards[i]
         /\ Score(state', state.activeTeam) = Score(state, state.activeTeam) - 5
         /\ Score(state', Other(state.activeTeam)) = Score(state, Other(state.activeTeam))
         /\ state'.activeTeam = Other(state.activeTeam)
         /\ state'.openCardId = state.openCardId]_vars

\* C3 witness: handleWrong was applied to the open, unsolved card by blue for
\* the second time; blue's score is below zero and the card is still open.
C3_Witness ==
  /\ last.op = "handleWrong"
  /\ HasCard(state, last.id)
  /\ state.openCardId = last.id
  /\ ~find(state, last.id).isSolved
  /\ find(state, last.id).failedBy = <<"blue", "red", "blue">>
  /\ state.blueScore = -10
  /\ state.activeTeam = "red"

\* C4: once a card's failedBy has length 2, no handleWrong or handleCorrect is
\* applied to it, and the only change the card undergoes (until a reset) is
\* the reveal: isSolved = true, solvedBy = none, failedBy kept.
C4_ExhaustedOnlyRevealed ==
  [][/\ Commits => Len(TimerCard.failedBy) < 2
     /\ last'.op # "resetGame" =>
          \A i \in DOMAIN state.cards :
            Len(state.cards[i].failedBy) >= 2 =>
              \/ state'.cards[i] = state.cards[i]
              \/ state'.cards[i] =
                   [state.cards[i] EXCEPT !.isSolved = TRUE, !.solvedBy = "none"]]_vars

\* C5: in every state reached by any sequence of the commands, every card
\* with isSolved = false has solvedBy = null.
C5_UnsolvedHasNoSolver ==
  \A i \in DOMAIN state.cards :
    ~state.cards[i].isSolved => state.cards[i].solvedBy = null

\* C5 witness: after a reveal one card is solved by nobody while another card
\* that already took a wrong guess is still unsolved.
C5_Witness ==
  /\ last.op = "handleRevealClose"
  /\ \E i \in DOMAIN state.cards :
        state.cards[i].isSolved /\ state.cards[i].solvedBy = "none"
  /\ \E i \in DOMAIN state.cards :
        ~state.cards[i].isSolved /\ state.cards[i].failedBy # <<>>

\* C6: a solved card keeps isSolved, solvedBy and failedBy in every later
\* state before the next reset.
C6_SolvedIsTerminal ==
  [][last'.op # "resetGame" =>
       \A i \in DOMAIN state.cards :
         state.cards[i].isSolved =>
           /\ state'.cards[i].isSolved
           /\ state'.cards[i].solvedBy = state.cards[i].solvedBy
           /\ state'.cards[i].failedBy = state.cards[i].failedBy]_vars

\* C7: handleCorrect(id) or handleWrong(id) applied to a card that is already
\* solved or exhausted leaves both scores, activeTeam and every card unchanged.
C7_CommitOnClosedCardIsNoOp ==
  [][(Commits /\ (TimerCard.isSolved \/ Len(TimerCard.failedBy) >= 2)) =>
       Game(state') = Game(state)]_vars

\* C8: a feedback timer that was pending when resetGame ran is never applied
\* to the re-created session: when it fires, scores, activeTeam and cards
\* stay as they are.
C8_ResetCancelsPendingCommit ==
  [][(Commits /\ Head(timers).preReset) => Game(state') = Game(state)]_vars

\* C9: the team whose score changes when a guess commits is the team that
\* was active when the guess was submitted; the other team's score stays.
C9_ScoreGoesToSubmitter ==
  [][Commits =>
       LET by == Head(timers).by
       IN /\ Score(state', Other(by)) = Score(state, Other(by))
          /\ Score(state', by) # Score(state, by)]_vars

\* C10: at any time at most one feedback timer is pending for a given card.
C10_OneTimerPerCard ==
  \A i, j \in DOMAIN timers : timers[i].id = timers[j].id => i = j

\* the steps that the claims say rotate the turn, on an existing card
RotatingCmd ==
  \E id \in CmdIds :
    \/ CmdHandleCorrect(id) /\ HasCard(state, id)
    \/ CmdHandleWrong(id) /\ HasCard(state, id)

\* the steps that the claims say leave the turn alone
NonRotatingCmd ==
  \/ CmdStartGame
  \/ \E id \in CmdIds : CmdOpenCard(id)
  \/ CmdCloseCard
  \/ \E id \in CmdIds : CmdHandleRevealClose(id)
  \/ CmdFinishGame

\* C11 as stated: activeTeam changes only on a handleCorrect or handleWrong
\* step, each such step on an existing card changes it to the opposing team,
\* and start, openCard, closeCard, handleRevealClose and finish leave it
\* unchanged.
C11_TurnChangesOnlyOnGuess ==
  [][/\ state'.activeTeam # state.activeTeam =>
          \E id \in CmdIds : CmdHandleCorrect(id) \/ CmdHandleWrong(id)
     /\ RotatingCmd => state'.activeTeam = Other(state.activeTeam)
     /\ NonRotatingCmd => state'.activeTeam = state.activeTeam]_vars

\* C11 amended: activeTeam changes only on a handleCorrect, handleWrong or
\* resetGame step (a reset hands the turn back to blue); each handleCorrect or
\* handleWrong step on an existing card changes it to the opposing team; start,
\* openCard, closeCard, handleRevealClose and finish leave it unchanged.
C11_TurnChangesOnlyOnGuessOrReset ==
  [][/\ state'.activeTeam # state.activeTeam =>
          \/ \E id \in CmdIds : CmdHandleCorrect(id) \/ CmdHandleWrong(id)
          \/ CmdResetGame /\ state'.activeTeam = "blue"
     /\ RotatingCmd => state'.activeTeam = Other(state.activeTeam)
     /\ NonRotatingCmd => state'.activeTeam = state.activeTeam]_vars

\* C11 witness: a wrong guess passed the turn to red, and the card was then
\* closed without a guess: it is still red's turn.
C11_Witness ==
  /\ last.op = "closeCard"
  /\ state.activeTeam = "red"
  /\ state.blueScore = -5
  /\ state.redScore = 0

\* C12: from any reachable state resetGame yields the canonical initial
\* session: scores 0, activeTeam blue, isStarted and isFinished false, no open
\* card, and one unsolved card with solvedBy null and empty failedBy per
\* dataset entry, with the dataset's ids and answers.
C12_ResetRestoresInitialSession ==
  [][CmdResetGame =>
       /\ state'.blueScore = 0
       /\ state'.redScore = 0
       /\ state'.activeTeam = "blue"
       /\ ~state'.isStarted
       /\ ~state'.isFinished
       /\ state'.openCardId = NoCard
       /\ Len(state'.cards) = Len(puzzleEntries)
       /\ \A i \in DOMAIN state'.cards :
             /\ state'.cards[i].id = i
             /\ ~state'.cards[i].isSolved
             /\ state'.cards[i].solvedBy = null
             /\ state'.cards[i].failedBy = <<>>
             /\ state'.cards[i].answer = puzzleEntries[i].answer]_vars

\* C12 witness: a reset was the fourth command of a run and left the initial
\* session.
C12_Witness ==
  /\ last.op = "resetGame"
  /\ ncmd = 4
  /\ state = INITIAL_STATE

\* C18: openCard(id) and closeCard() change only openCardId;
\* handleRevealClose(id) changes only the target card's isSolved/solvedBy and
\* openCardId; none of the three changes a score or any card's failedBy.
C18_OpenCloseRevealFrame ==
  [][/\ \A id \in CmdIds :
          CmdOpenCard(id) => state' = [state EXCEPT !.openCardId = id]
     /\ CmdCloseCard => state' = [state EXCEPT !.openCardId = NoCard]
     /\ \A id \in CmdIds :
          CmdHandleRevealClose(id) =>
            /\ state' = [state EXCEPT !.openCardId = NoCard, !.cards = state'.cards]
            /\ \A i \in DOMAIN state.cards :
                  IF state.cards[i].id = id
                    THEN state'.cards[i] =
                           [state.cards[i] EXCEPT !.isSolved = TRUE, !.solvedBy = "none"]
                    ELSE state'.cards[i] = state.cards[i]]_vars

\* C18 witness: a card that took a wrong guess was revealed: it is solved by
\* nobody, keeps its failed attempt, and the penalty is the only score change.
C18_Witness ==
  /\ last.op = "handleRevealClose"
  /\ HasCard(state, last.id)
  /\ find(state, last.id).solvedBy = "none"
  /\ find(state, last.id).failedBy = <<"blue">>
  /\ state.blueScore = -5
  /\ state.redScore = 0
  /\ state.openCardId = NoCard

\* C13: in every state reachable from a fresh session, isFinished implies
\* isStarted and every card solved.
C13_FinishedImpliesStartedAndAllSolved ==
  state.isFinished =>
    /\ state.isStarted
    /\ \A i \in DOMAIN state.cards : state.cards[i].isSolved

\* C13 witness: the auto-finish timer has fired after one card was revealed
\* (solved by nobody) and another was solved by a team.
C13_Witness ==
  /\ last.op = "finishGame"
  /\ state.isFinished
  /\ \E i \in DOMAIN state.cards : state.cards[i].solvedBy = "none"
  /\ \E i \in DOMAIN state.cards : state.cards[i].solvedBy \in Team

\* C14: whenever the session is started and every card is solved, isFinished
\* eventually becomes true unless a reset happens first, given that pending
\* timers eventually fire.
C14_AllSolvedLeadsToFinished ==
  (state.isStarted /\ \A i \in DOMAIN state.cards : state.cards[i].isSolved)
    ~> (state.isFinished \/ last.op = "resetGame")

\* C14 witness: the last card was just solved by a commit, the game is
\* started and not yet finished; later the finish timer fires.
C14_Witness ==
  /\ last.op = "handleCorrect"
  /\ state.isStarted
  /\ ~state.isFinished
  /\ \A i \in DOMAIN state.cards : state.cards[i].isSolved

\* number of entries of the sequence f that equal team
RECURSIVE Occurrences(_, _)
Occurrences(f, team) ==
  IF f = <<>> THEN 0
  ELSE (IF Head(f) = team THEN 1 ELSE 0) + Occurrences(Tail(f), team)

RECURSIVE FailedCount(_, _, _)
FailedCount(cards, n, team) ==
  IF n = 0 THEN 0
  ELSE Occurrences(cards[n].failedBy, team) + FailedCount(cards, n - 1, team)

SolvedCount(cards, team) ==
  Cardinality({i \in DOMAIN cards : cards[i].solvedBy = team})

\* C19: in every reachable state each team's score equals 10 times the number
\* of cards it solved minus 5 times its occurrences in all failedBy sequences.
C19_ScoreAccounting ==
  \A team \in Team :
    Score(state, team) =
      10 * SolvedCount(state.cards, team)
        - 5 * FailedCount(state.cards, Len(state.cards), team)

\* C20: in every reachable state an open card id is the id of an existing
\* card that is not solved.
C20_OpenCardIsUnsolved ==
  state.openCardId # NoCard =>
    \E i \in DOMAIN state.cards :
      state.cards[i].id = state.openCardId /\ ~state.cards[i].isSolved

\* C20 witness: after a wrong guess committed, its card is still open and
\* unsolved while another card is already solved.
C20_Witness ==
  /\ state.openCardId # NoCard
  /\ last.op = "handleWrong"
  /\ find(state, state.openCardId).failedBy # <<>>
  /\ \E i \in DOMAIN state.cards : state.cards[i].isSolved

\* C15: a persisted record that carries a datasetKey different from
\* DATASET_KEY always loads as exactly INITIAL_STATE.
C15_KeyMismatchLoadsInitial ==
  (/\ boot.phase = "loaded"
   /\ storage.form = "object"
   /\ storage.hasKey
   /\ storage.datasetKey # DATASET_KEY)
    => (boot.result.shape = "session" /\ boot.result.val = INITIAL_STATE)

\* a stored value that is a well-formed record: an object whose session (its
\* state field when it carries a fingerprint and a state, the object itself
\* otherwise) is a complete session
WellFormedRecord(item) ==
  /\ item.form = "object"
  /\ IF item.hasKey /\ item.hasState
       THEN item.state.shape = "session"
       ELSE item.self.shape = "session"

\* C16: every stored value that is not a well-formed record (invalid JSON, a
\* non-object, a record missing fields, a record whose state is not a
\* well-formed session) loads as INITIAL_STATE.
C16_MalformedLoadsInitial ==
  (boot.phase = "loaded" /\ ~WellFormedRecord(storage))
    => (boot.result.shape = "session" /\ boot.result.val = INITIAL_STATE)

\* C17 as stated: after any sequence of commands the persisted record holds
\* the current session with the current fingerprint, so the loader yields a
\* session equal to the one in effect (the initial one after a reset).
C17_RecordHoldsSessionAndRoundTrips ==
  /\ storage.form = "object"
  /\ storage.hasKey /\ storage.datasetKey = DATASET_KEY
  /\ storage.hasState /\ storage.state = Parsed("session", state)
  /\ loader(storage).shape = "session"
  /\ loader(storage).val = state
  /\ last.op = "resetGame" => loader(storage).val = INITIAL_STATE

\* C17 amended: after any sequence of commands the persisted record holds the
\* current session with the current fingerprint, or is absent when resetGame
\* ran on a state that already was the INITIAL_STATE object; either way the
\* loader yields a session equal to the one in effect (the initial one after
\* a reset).
C17_RecordRoundTripsOrAbsentAfterReset ==
  /\ \/ /\ storage.form = "object"
        /\ storage.hasKey /\ storage.datasetKey = DATASET_KEY
        /\ storage.hasState /\ storage.state = Parsed("session", state)
     \/ /\ storage.form = "absent"
        /\ stateIsInitial
        /\ state = INITIAL_STATE
  /\ loader(storage).shape = "session"
  /\ loader(storage).val = state
  /\ last.op = "resetGame" => loader(storage).val = INITIAL_STATE

\* C17 witness: the page was reloaded in the middle of a game and the loader
\* returned the session with its open card, failed attempt and penalty.
C17_Witness ==
  /\ last.op = "reload"
  /\ boot.result = Parsed("session", state)
  /\ state.isStarted
  /\ state.openCardId = 1
  /\ state.cards[1].failedBy = <<"blue">>
  /\ state.blueScore = -5

====
